---- MODULE Spec2Model ----
(***************************************************************************)
(* Model of procedural_map.py (and of procedural_map_ascii.py, whose       *)
(* registry, generator and AsciiRenderer are the same code): the tileset   *)
(* registry, TerrainGenerator, AsciiRenderer and SpriteRenderer.           *)
(*                                                                         *)
(* Conventions.                                                            *)
(*  - Noise values and the normalised height/moisture values are kept in   *)
(*    hundredths: 35 stands for 0.35, -15 for -0.15.                       *)
(*  - A Python list is a sequence, so cell (x, y) of terrain[y][x] is      *)
(*    terrain[y+1][x+1] here.                                              *)
(*  - A text is a sequence of characters; a character is a one-element     *)
(*    token such as "~" or NL.  The forest glyph, code point U+2663, is    *)
(*    the token "U+2663" (one character).                                  *)
(*  - An image is [size |-> <<W, H>>, px |-> function on its pixel         *)
(*    coordinates].  The sheet's pixel at (x, y) is written <<x, y>>: all  *)
(*    sheet pixels are distinct, so a copied pixel names where it came     *)
(*    from.  Transparent is the RGBA value (0,0,0,0) that Pillow fills in. *)
(***************************************************************************)
EXTENDS Integers, Sequences, FiniteSets

VARIABLES
    gen,          \* the TerrainGenerator instance (self.w, self.h, self.seed, self.oct)
    genStatus,    \* "none" | "constructed" | "returned" | "ValueError"
    height_map,   \* generate's local after normalisation (kept for inspection)
    moisture_map, \* generate's local after normalisation
    terrain,      \* the grid generate returned
    samples,      \* number of _noise calls the last generate made
    rng,          \* the process-wide state of Python's random module
    ref,          \* the result a caller kept from an earlier generate call (a set of
                  \* at most one record), with whether a generate call with other
                  \* arguments has returned since
    renderer,     \* "none" | "ascii" | "sprite": the renderer instance alive
    rterrain,     \* the renderer's self.terrain
    rstatus,      \* "none" | "constructed" | "done" | an exception name
    text,         \* what AsciiRenderer.render returned
    sheet_img,    \* SpriteRenderer.sheet_img
    tile_size,    \* SpriteRenderer.tile_size
    id2sprite,    \* SpriteRenderer.id2sprite
    saved         \* the image file canvas.save wrote

genVars    == <<gen, genStatus, height_map, moisture_map, terrain, samples>>
renderVars == <<renderer, rterrain, rstatus, text, sheet_img, tile_size,
                id2sprite, saved>>
vars       == <<genVars, rng, ref, renderVars>>

None == "None"

\* ------------------------------------------------------------- bounds
MaxW      == 3    \* largest width tried
MaxH      == 2    \* largest height tried
MaxDraws  == 1    \* random.random() calls other code makes after a seeding
NormSlack == 20   \* how far below 0.00 / above 1.00 normalised values are tried

Widths   == -1..MaxW
Heights  == -1..MaxH
Seeds    == {-1, 0}
Octaves  == {1, 4}

\* ------------------------------------------------- 1. tileset registry
Tile(id, glyph, passable, rc) ==
    [id |-> id, glyph |-> glyph, passable |-> passable, rc |-> rc]

TILESET == <<
    Tile("water_deep",    "~",      FALSE, <<0, 0>>),
    Tile("water_shallow", ",",      FALSE, <<0, 1>>),
    Tile("sand",          ".",      TRUE,  <<1, 0>>),
    Tile("plains",        "\"",     TRUE,  <<1, 1>>),
    Tile("forest",        "U+2663", TRUE,  <<2, 0>>),
    Tile("mountain",      "^",      FALSE, <<2, 1>>) >>

TileIds == {TILESET[i].id : i \in DOMAIN TILESET}

ID2TILE  == [id \in TileIds |->
                 TILESET[CHOOSE i \in DOMAIN TILESET : TILESET[i].id = id]]
ID2GLYPH == [id \in TileIds |-> ID2TILE[id].glyph]

\* ------------------------------------------------ 2. terrain generator
\* noise.pnoise2 is a library function outside the repository: a pure
\* function of its arguments.  It is called with x = xn/scale, y = yn/scale;
\* the model takes the numerators and the scale, and returns one of
\* NoiseValues (hundredths), which hold every threshold of generate exactly,
\* its neighbours, and values outside the nominal [-0.5, 0.5].
NoiseValues == << -60, -16, -15, -9, -8, -6, -5, -1, 0, 19, 20, 60, 1 >>

pnoise2(xn, yn, scale, octaves, base) ==
    NoiseValues[((3 * xn + 5 * yn + 7 * scale + 11 * octaves + 2 * base
                  + xn * yn * (base + 2)) % Len(NoiseValues)) + 1]

\* _noise reading the process-wide random state
_noise_global(self, x, y, scale, offset) ==
    pnoise2(x + offset, y + offset, scale, self.oct, self.seed + rng.pos)

\* _noise with the scale taken relative to the grid's width
_noise_relative(self, x, y, scale, offset) ==
    IF self.w > 1
    THEN pnoise2(x + offset, y + offset, scale * self.w, self.oct, self.seed)
    ELSE pnoise2(x + offset, y + offset, scale, self.oct, self.seed)

_noise(self, x, y, scale, offset) ==
    pnoise2(x + offset, y + offset, scale, self.oct, self.seed)

\* the chain with the sand/plains threshold compared by <=
Biome_le(h, m) ==
    IF h < 35 THEN "water_deep"
    ELSE IF h < 42 THEN "water_shallow"
    ELSE IF h <= 45 THEN "sand"
    ELSE IF h < 70 THEN (IF m < 50 THEN "plains" ELSE "forest")
    ELSE "mountain"

\* lines 74-78: the if/elif chain of generate
Biome(h, m) ==
    IF h < 35 THEN "water_deep"
    ELSE IF h < 42 THEN "water_shallow"
    ELSE IF h < 45 THEN "sand"
    ELSE IF h < 70 THEN (IF m < 50 THEN "plains" ELSE "forest")
    ELSE "mountain"

\* lines 70-78: the classification loop over the two normalised maps
Classify(hm, mm, w, h) ==
    [y \in 1..h |-> [x \in 1..w |-> Biome(hm[y][x], mm[y][x])]]

\* lines 59-79.  np.zeros raises ValueError on a negative dimension, before
\* any sample; a zero dimension makes every loop empty.
generate(self) ==
    IF self.h < 0 \/ self.w < 0
    THEN [status |-> "ValueError", height_map |-> None, moisture_map |-> None,
          terrain |-> None, samples |-> 0]
    ELSE LET hraw == [y \in 1..self.h |-> [x \in 1..self.w |->
                          _noise(self, x - 1, y - 1, 60, 0)]]
             mraw == [y \in 1..self.h |-> [x \in 1..self.w |->
                          _noise(self, x - 1, y - 1, 120, 999)]]
             hm   == [y \in 1..self.h |-> [x \in 1..self.w |-> hraw[y][x] + 50]]
             mm   == [y \in 1..self.h |-> [x \in 1..self.w |-> mraw[y][x] + 50]]
         IN  [status |-> "returned", height_map |-> hm, moisture_map |-> mm,
              terrain |-> Classify(hm, mm, self.w, self.h),
              samples |-> 2 * self.w * self.h]

\* random.seed(a): the process-wide generator restarts from seed a
random_seed(a) == [seed |-> a, pos |-> 0]

NoRenderer ==
    /\ renderer = "none" /\ rterrain = None /\ rstatus = "none"
    /\ text = None /\ sheet_img = None /\ tile_size = 0
    /\ id2sprite = None /\ saved = None

Init ==
    /\ gen = [w |-> 0, h |-> 0, seed |-> 0, oct |-> 0]   \* no instance yet
    /\ genStatus = "none"
    /\ height_map = None /\ moisture_map = None /\ terrain = None
    /\ samples = 0
    /\ rng = random_seed(1000)   \* seeded by the interpreter, not by a generator
    /\ ref = {}
    /\ NoRenderer

\* TerrainGenerator(width, height, seed, octaves): __init__, lines 49-51
TerrainGeneratorInit(width, height, seed, octaves) ==
    /\ gen' = [w |-> width, h |-> height, seed |-> seed, oct |-> octaves]
    /\ genStatus' = "constructed"
    /\ height_map' = None /\ moisture_map' = None /\ terrain' = None
    /\ samples' = 0
    /\ rng' = random_seed(seed)
    /\ UNCHANGED <<ref, renderVars>>

\* gen.generate(), lines 58-79
Generate ==
    /\ genStatus = "constructed"
    /\ LET r == generate(gen)
       IN  /\ genStatus' = r.status
           /\ height_map' = r.height_map
           /\ moisture_map' = r.moisture_map
           /\ terrain' = r.terrain
           /\ samples' = r.samples
           /\ ref' = {[k EXCEPT !.other = @ \/ (r.status = "returned" /\ k.args # gen)] :
                          k \in ref}
    /\ UNCHANGED <<gen, rng, renderVars>>

\* generate at line 70, on a 1 x 1 grid, under an arbitrary noise function:
\* the two normalised values are any values from -NormSlack to 100 + NormSlack
NormValues == (0 - NormSlack)..(100 + NormSlack)

InitNormalised ==
    /\ gen = [w |-> 1, h |-> 1, seed |-> 0, oct |-> 4]
    /\ rng = random_seed(0)
    /\ genStatus = "normalised"
    /\ \E hv \in NormValues : height_map = << <<hv>> >>
    /\ \E mv \in NormValues : moisture_map = << <<mv>> >>
    /\ terrain = None
    /\ samples = 2
    /\ ref = {}
    /\ NoRenderer

\* generate from line 70 on, lines 70-79
ClassifyCells ==
    /\ genStatus = "normalised"
    /\ terrain' = Classify(height_map, moisture_map, gen.w, gen.h)
    /\ genStatus' = "returned"
    /\ UNCHANGED <<gen, height_map, moisture_map, samples, rng, ref, renderVars>>

\* other code of the process calls random.random()
RandomDraw ==
    /\ rng.pos < MaxDraws
    /\ rng' = [rng EXCEPT !.pos = @ + 1]
    /\ UNCHANGED <<genVars, ref, renderVars>>

\* the caller keeps the grid a generate call returned
KeepResult ==
    /\ genStatus = "returned"
    /\ ref' = {[args |-> gen, grid |-> terrain, other |-> FALSE]}
    /\ UNCHANGED <<genVars, rng, renderVars>>

\* ------------------------------------------------------- 3. renderers
NL == "\n"

\* "".join(ID2GLYPH[id_] for id_ in row): every glyph is one character
RowText(row) == [x \in 1..Len(row) |-> ID2GLYPH[row[x]]]

\* a join that also ends the last part with the separator
RECURSIVE str_join_trailing(_, _)
str_join_trailing(sep, parts) ==
    IF Len(parts) = 0 THEN << >>
    ELSE parts[1] \o <<sep>> \o str_join_trailing(sep, Tail(parts))

\* sep.join(parts), sep one character and parts a sequence of texts
RECURSIVE str_join(_, _)
str_join(sep, parts) ==
    IF Len(parts) = 0 THEN << >>
    ELSE IF Len(parts) = 1 THEN parts[1]
    ELSE parts[1] \o <<sep>> \o str_join(sep, Tail(parts))

\* the ids of a grid that are looked up, whatever its shape
CellIds(t) == {t[y][x] : <<y, x>> \in {q \in (DOMAIN t) \X (0..(MaxW + 2)) :
                                          q[2] \in DOMAIN t[q[1]]}}

\* a render that looks glyphs up with a default, ID2GLYPH.get(id_, "?")
AsciiRenderer_render_default(t) ==
    [status |-> "done",
     text |-> str_join(NL, [y \in 1..Len(t) |->
                  [x \in 1..Len(t[y]) |->
                      IF t[y][x] \in DOMAIN ID2GLYPH THEN ID2GLYPH[t[y][x]]
                      ELSE "?"]])]

\* AsciiRenderer.render, lines 86-90: ID2GLYPH[id_] raises KeyError
AsciiRenderer_render(t) ==
    IF \E id \in CellIds(t) : id \notin DOMAIN ID2GLYPH
    THEN [status |-> "KeyError", text |-> None]
    ELSE [status |-> "done",
          text |-> str_join(NL, [y \in 1..Len(t) |-> RowText(t[y])])]

Transparent == <<-1, -1>>

Coords(w, h) == (0..(w - 1)) \X (0..(h - 1))

\* Image.open(sheet_path).convert("RGBA"): a sheet of the given size
SheetImage(size) ==
    [size |-> size, px |-> [p \in Coords(size[1], size[2]) |-> p]]

\* Image.new("RGBA", size): all pixels (0,0,0,0)
Image_new(size) ==
    [size |-> size, px |-> [p \in Coords(size[1], size[2]) |-> Transparent]]

\* Image.crop(box): never fails; the part of the box outside the image is
\* filled with transparent pixels
crop(img, box) ==
    LET w == box[3] - box[1]
        h == box[4] - box[2]
    IN  [size |-> <<w, h>>,
         px |-> [p \in Coords(w, h) |->
                    LET q == <<box[1] + p[1], box[2] + p[2]>>
                    IN  IF q \in DOMAIN img.px THEN img.px[q] ELSE Transparent]]

\* a paste that takes the offset as (oy, ox)
paste_swapped(canvas, im, off) ==
    [canvas EXCEPT !.px =
        [p \in DOMAIN @ |->
            LET q == <<p[1] - off[2], p[2] - off[1]>>
            IN  IF q \in DOMAIN im.px THEN im.px[q] ELSE @[p]]]

\* Image.paste(im, (ox, oy)) without a mask: the pixels are copied
paste(canvas, im, off) ==
    [canvas EXCEPT !.px =
        [p \in DOMAIN @ |->
            LET q == <<p[1] - off[1], p[2] - off[2]>>
            IN  IF q \in DOMAIN im.px THEN im.px[q] ELSE @[p]]]

\* a crop box that reads tile.rc as (col, row)
CropBox_colrow(tile, ts) ==
    LET c  == tile.rc[1]
        r  == tile.rc[2]
        x0 == c * ts
        y0 == r * ts
    IN  <<x0, y0, x0 + ts, y0 + ts>>

\* the crop box of a tile, lines 110-113
CropBox(tile, ts) ==
    LET r  == tile.rc[1]
        c  == tile.rc[2]
        x0 == c * ts
        y0 == r * ts
    IN  <<x0, y0, x0 + ts, y0 + ts>>

\* SpriteRenderer._slice_sheet, lines 103-115
_slice_sheet(sheet, ts) ==
    [id \in TileIds |-> crop(sheet, CropBox(ID2TILE[id], ts))]

\* the paste loop of SpriteRenderer.render, lines 121-124, from cell k on
\* (row-major); id2sprite[id_] raises KeyError
RECURSIVE PasteCells(_, _, _, _, _)
PasteCells(canvas, t, sprites, ts, k) ==
    LET w == Len(t[1])
        h == Len(t)
    IN  IF k >= w * h THEN [status |-> "done", canvas |-> canvas]
        ELSE LET x   == k % w
                 y   == k \div w
                 id_ == t[y + 1][x + 1]
             IN  IF id_ \notin DOMAIN sprites
                 THEN [status |-> "KeyError", canvas |-> canvas]
                 ELSE PasteCells(paste(canvas, sprites[id_], <<x * ts, y * ts>>),
                                 t, sprites, ts, k + 1)

\* SpriteRenderer.render up to canvas.save, lines 118-124; len(terrain[0])
\* raises IndexError on an empty grid
SpriteRenderer_render(t, sprites, ts) ==
    IF Len(t) = 0 THEN [status |-> "IndexError", canvas |-> None]
    ELSE PasteCells(Image_new(<<Len(t[1]) * ts, Len(t) * ts>>), t, sprites, ts, 0)

\* make_placeholder_sheet, lines 144-146: the size of the sheet it writes
PlaceholderSize(ts) ==
    LET cols == CHOOSE n \in 1..Len(TILESET) :
                    /\ \E i \in DOMAIN TILESET : TILESET[i].rc[2] + 1 = n
                    /\ \A i \in DOMAIN TILESET : TILESET[i].rc[2] + 1 <= n
        rows == CHOOSE n \in 1..Len(TILESET) :
                    /\ \E i \in DOMAIN TILESET : TILESET[i].rc[1] + 1 = n
                    /\ \A i \in DOMAIN TILESET : TILESET[i].rc[1] + 1 <= n
    IN  <<cols * ts, rows * ts>>

\* --tile-size values tried, and the sheets tried with each: the placeholder
\* sheet, the same one pixel narrower, and both with width and height swapped
TileSizes == {1, 2, 16}
SheetSizes(ts) ==
    LET s == PlaceholderSize(ts)
    IN  {s, <<s[1] - 1, s[2]>>, <<s[2], s[1]>>, <<s[2] - 1, s[1]>>}

ForeignId == "lava"

\* the grids handed to a renderer: the generated grid, or that grid with one
\* cell holding an id that is not in the registry
RenderInputs ==
    IF genStatus # "returned" THEN {}
    ELSE {terrain} \cup
         {[terrain EXCEPT ![y][x] = ForeignId] :
             <<y, x>> \in {q \in (1..Len(terrain)) \X (1..(MaxW + 1)) :
                              q[2] <= Len(terrain[q[1]])}}

\* AsciiRenderer(terrain), line 85
AsciiRendererInit(t) ==
    /\ genStatus = "returned"
    /\ renderer' = "ascii" /\ rterrain' = t /\ rstatus' = "constructed"
    /\ text' = None /\ sheet_img' = None /\ tile_size' = 0
    /\ id2sprite' = None /\ saved' = None
    /\ UNCHANGED <<genVars, rng, ref>>

\* AsciiRenderer.render(), lines 86-90
AsciiRender ==
    /\ renderer = "ascii" /\ rstatus = "constructed"
    /\ LET r == AsciiRenderer_render(rterrain)
       IN  rstatus' = r.status /\ text' = r.text
    /\ UNCHANGED <<genVars, rng, ref, renderer, rterrain, sheet_img, tile_size,
                   id2sprite, saved>>

\* SpriteRenderer(terrain, sheet_path, tile_size), lines 97-101
SpriteRendererInit(t, size, ts) ==
    /\ genStatus = "returned"
    /\ renderer' = "sprite" /\ rterrain' = t /\ rstatus' = "constructed"
    /\ tile_size' = ts
    /\ sheet_img' = SheetImage(size)
    /\ id2sprite' = _slice_sheet(SheetImage(size), ts)
    /\ text' = None /\ saved' = None
    /\ UNCHANGED <<genVars, rng, ref>>

\* SpriteRenderer.render(out_path), lines 117-126.  Saving a canvas without
\* pixels depends on the Pillow build: it is written, or save raises.
SpriteRender ==
    /\ renderer = "sprite" /\ rstatus = "constructed"
    /\ LET r == SpriteRenderer_render(rterrain, id2sprite, tile_size)
       IN  IF r.status # "done"
           THEN rstatus' = r.status /\ saved' = None
           ELSE \/ rstatus' = "done" /\ saved' = r.canvas
                \/ /\ r.canvas.size[1] * r.canvas.size[2] = 0
                   /\ rstatus' = "SaveError" /\ saved' = None
    /\ UNCHANGED <<genVars, rng, ref, renderer, rterrain, text, sheet_img,
                   tile_size, id2sprite>>

\* ---------------------------------------------------- specifications
\* Spec: a process that constructs generators, generates, keeps results and
\* draws random numbers, in any order.
Next ==
    \/ \E width \in Widths, height \in Heights, seed \in Seeds, octaves \in Octaves :
           TerrainGeneratorInit(width, height, seed, octaves)
    \/ Generate
    \/ RandomDraw
    \/ KeepResult

Spec == Init /\ [][Next]_vars

\* SpecRender: main, lines 173-188: a grid is generated and then handed to one
\* renderer, which renders it.
NextRender ==
    \/ /\ renderer = "none"
       /\ \E width \in Widths, height \in Heights, seed \in Seeds, octaves \in Octaves :
              TerrainGeneratorInit(width, height, seed, octaves)
    \/ renderer = "none" /\ Generate
    \/ /\ renderer = "none"
       /\ \E t \in RenderInputs : AsciiRendererInit(t)
    \/ AsciiRender
    \/ /\ renderer = "none"
       /\ \E ts \in TileSizes : \E size \in SheetSizes(ts) : \E t \in RenderInputs :
              SpriteRendererInit(t, size, ts)
    \/ SpriteRender

SpecRender == Init /\ [][NextRender]_vars

\* SpecBiome: generation under the library's noise, and the classification
\* of one cell under arbitrary noise.
NextBiome ==
    \/ \E width \in Widths, height \in Heights, seed \in Seeds, octaves \in Octaves :
           TerrainGeneratorInit(width, height, seed, octaves)
    \/ Generate
    \/ ClassifyCells

SpecBiome == (Init \/ InitNormalised) /\ [][NextBiome]_vars

\* ============================================================== claims
Min(a, b) == IF a < b THEN a ELSE b

\* the rows of the threshold table that apply to (h, m)
TableRows(h, m) ==
    {b \in {"water_deep", "water_shallow", "sand", "plains", "forest", "mountain"} :
        \/ b = "water_deep"    /\ h < 35
        \/ b = "water_shallow" /\ 35 <= h /\ h < 42
        \/ b = "sand"          /\ 42 <= h /\ h < 45
        \/ b = "plains"        /\ 45 <= h /\ h < 70 /\ m < 50
        \/ b = "forest"        /\ 45 <= h /\ h < 70 /\ m >= 50
        \/ b = "mountain"      /\ h >= 70}

\* C1: every cell of a returned grid holds exactly the biome of the one row
\* of the threshold table that applies to its normalised (h, m), also for
\* values below 0 or above 1; no cell is "" and every id is a registry id.
C1_ThresholdTable ==
    genStatus = "returned" =>
        /\ Len(terrain) = gen.h
        /\ \A y \in 1..gen.h :
               /\ Len(terrain[y]) = gen.w
               /\ \A x \in 1..gen.w :
                      /\ TableRows(height_map[y][x], moisture_map[y][x])
                             = {terrain[y][x]}
                      /\ terrain[y][x] # ""
                      /\ terrain[y][x] \in TileIds

\* C1 witness: a cell exactly on the sand/plains threshold with a moisture
\* above 1 has been classified.
C1_Witness ==
    /\ genStatus = "returned" /\ gen.w = 1 /\ gen.h = 1
    /\ height_map[1][1] = 45 /\ moisture_map[1][1] > 100
    /\ terrain[1][1] = "forest"

\* C2: a generate call returns the grid an earlier call with the same
\* (width, height, seed, octaves) returned, whatever was constructed,
\* generated or drawn in between.
C2_Deterministic ==
    \A k \in ref :
        (genStatus = "returned" /\ gen = k.args) => terrain = k.grid

\* C2 witness: the same arguments have generated again after a generation
\* with other arguments, on a grid with cells.
C2_Witness ==
    \E k \in ref :
        /\ genStatus = "returned" /\ gen = k.args /\ k.other
        /\ gen.w = MaxW /\ gen.h = MaxH /\ rng.pos > 0

\* C3 (as claimed): with width <= 0 or height <= 0 generation ends in an
\* error, no grid is returned and no noise sample is taken.
C3_RejectsEmptySize ==
    (genStatus \in {"returned", "ValueError"} /\ (gen.w <= 0 \/ gen.h <= 0)) =>
        (genStatus = "ValueError" /\ samples = 0)

\* a crop box that lies within an image of the given size
BoxInside(box, size) ==
    /\ 0 <= box[1] /\ box[3] <= size[1]
    /\ 0 <= box[2] /\ box[4] <= size[2]

SheetContainsAll(size, ts) ==
    \A id \in TileIds : BoxInside(CropBox(ID2TILE[id], ts), size)

\* the cached sprites that hold a pixel from outside the sheet
OutOfSheetSprites ==
    {id \in DOMAIN id2sprite :
        \E p \in DOMAIN id2sprite[id].px : id2sprite[id].px[p] = Transparent}

\* C4 (as claimed): a sheet smaller than some biome's crop rectangle makes
\* the construction fail; no renderer with a sprite cache comes to exist.
C4_RejectsSmallSheet ==
    (renderer = "sprite" /\ ~SheetContainsAll(sheet_img.size, tile_size)) =>
        rstatus = "AssetError"

C6_RandomStateUntouched ==
    [][((\E width \in Widths, height \in Heights, seed \in Seeds, octaves \in Octaves :
            TerrainGeneratorInit(width, height, seed, octaves)) \/ Generate)
        => rng' = rng]_vars

HasForeignId(t) == \E id \in CellIds(t) : id \notin TileIds

\* C7: once render has run on a grid with a cell whose id is not in the
\* registry, it has failed with a KeyError: no text was returned and no
\* image was saved.
C7_ForeignIdFails ==
    (renderer # "none" /\ rstatus # "constructed" /\ HasForeignId(rterrain)) =>
        /\ rstatus = "KeyError"
        /\ text = None
        /\ saved = None

\* C7 witness: the ascii renderer failed on a grid in which a registry id
\* precedes the foreign one.
C7_Witness ==
    /\ renderer = "ascii" /\ rstatus = "KeyError"
    /\ Len(rterrain) = 2
    /\ rterrain[1][1] \in TileIds /\ rterrain[2][1] = ForeignId

\* the lines of a text: the pieces between line breaks
RECURSIVE SplitLines(_)
SplitLines(s) ==
    IF \A i \in DOMAIN s : s[i] # NL THEN <<s>>
    ELSE LET i == CHOOSE j \in DOMAIN s :
                      s[j] = NL /\ \A n \in 1..(j - 1) : s[n] # NL
         IN  <<SubSeq(s, 1, i - 1)>> \o SplitLines(SubSeq(s, i + 1, Len(s)))

\* C8: for a grid with width > 0 and height > 0 the text has exactly height
\* lines of exactly width characters, character x of line y is the glyph of
\* cell (x, y), and the lines are separated by single line breaks with none
\* after the last.
C8_AsciiShape ==
    (renderer = "ascii" /\ rstatus = "done"
        /\ Len(rterrain) > 0 /\ Len(rterrain[1]) > 0) =>
        LET h     == Len(rterrain)
            w     == Len(rterrain[1])
            lines == SplitLines(text)
        IN  /\ Len(lines) = h
            /\ \A y \in 1..h :
                   /\ Len(lines[y]) = w
                   /\ \A x \in 1..w :
                          lines[y][x] = ID2TILE[rterrain[y][x]].glyph
            /\ Len(text) = h * w + (h - 1)

\* C8 witness: a grid of the largest size with two different biomes rendered.
C8_Witness ==
    /\ renderer = "ascii" /\ rstatus = "done"
    /\ Len(rterrain) = MaxH /\ Len(rterrain[1]) = MaxW
    /\ rterrain[1][1] # rterrain[MaxH][MaxW]

\* C9: with a sheet that contains every crop rectangle, the saved canvas has
\* (width*tile_size, height*tile_size) pixels; pixel (i, j) of the cell
\* (x, y) rectangle is the sheet pixel (col*tile_size + i, row*tile_size + j)
\* of that cell's biome; every canvas pixel lies in exactly one cell's
\* rectangle; and the sprite cache is still the slicing of the sheet.
C9_SpriteCanvas ==
    (renderer = "sprite" /\ rstatus = "done"
        /\ Len(rterrain) > 0 /\ Len(rterrain[1]) > 0
        /\ SheetContainsAll(sheet_img.size, tile_size)) =>
        LET h  == Len(rterrain)
            w  == Len(rterrain[1])
            ts == tile_size
        IN  /\ saved.size = <<w * ts, h * ts>>
            /\ DOMAIN saved.px = Coords(w * ts, h * ts)
            /\ \A y \in 0..(h - 1), x \in 0..(w - 1) :
                   LET rc == ID2TILE[rterrain[y + 1][x + 1]].rc
                   IN  \A p \in Coords(ts, ts) :
                           saved.px[<<x * ts + p[1], y * ts + p[2]>>]
                               = sheet_img.px[<<rc[2] * ts + p[1], rc[1] * ts + p[2]>>]
            /\ \A q \in DOMAIN saved.px :
                   Cardinality({c \in Coords(w, h) :
                       /\ c[1] * ts <= q[1] /\ q[1] < c[1] * ts + ts
                       /\ c[2] * ts <= q[2] /\ q[2] < c[2] * ts + ts}) = 1
            /\ id2sprite = _slice_sheet(sheet_img, ts)

\* C9 witness: a grid wider than one cell, with two different biomes in its
\* first row, was rendered with tiles larger than one pixel.
C9_Witness ==
    /\ renderer = "sprite" /\ rstatus = "done"
    /\ Len(rterrain) = MaxH /\ Len(rterrain[1]) = MaxW
    /\ rterrain[1][1] # rterrain[1][2]
    /\ tile_size = 2
    /\ SheetContainsAll(sheet_img.size, tile_size)

\* C10: with the same seed and octaves, a generated grid agrees with an
\* earlier one of any other size on their common top-left region.
C10_SizeIndependent ==
    \A k \in ref :
        (genStatus = "returned" /\ gen.seed = k.args.seed /\ gen.oct = k.args.oct) =>
            \A y \in 1..Min(gen.h, k.args.h), x \in 1..Min(gen.w, k.args.w) :
                terrain[y][x] = k.grid[y][x]

\* C10 witness: two grids of different widths and heights, same seed and
\* octaves, with a common region of two different cells.
C10_Witness ==
    \E k \in ref :
        /\ genStatus = "returned"
        /\ gen.seed = k.args.seed /\ gen.oct = k.args.oct
        /\ gen.w > k.args.w /\ gen.h < k.args.h
        /\ k.args.w >= 2 /\ gen.h >= 1
        /\ terrain[1][1] # terrain[1][2]

====
